---- MODULE Spec2Model ----
\* GameOfLife (src/src/game_of_life.rs): two grid buffers, the color image and
\* the step counter, driven by new / color_image / draw_life / compute, with
\* the compute shader's invocations of one dispatch interleaved one by one.
\* The application (src/src/lib.rs): the systems of one frame in schedule
\* order, the composite draw of FillScreenRenderPass (src/src/render_pass.rs,
\* src/src/quad_pipeline.rs) and the engine re-created on a window resize.
\*   Spec       : the engine under every order of calls.
\*   AppSpec    : the engine driven by the frame loop of lib.rs.
\*   ResizeSpec : the resize handler over every window size up to MaxWindow.
EXTENDS Integers, Naturals, Sequences, FiniteSets, TLC

\* ---------------------------------------------------------------- bounds
\* The grid of the model (lib.rs uses 128 x 256).
Width == 3
Height == 3
\* compute is called while sim_steps < MaxSteps (far below the u32 range).
MaxSteps == 2
\* draw_life is called at most MaxEdits times on one engine.
MaxEdits == 1
\* Radii given to draw_life are 0..MaxRadius (lib.rs uses 6).
MaxRadius == 1
\* Within one dispatch at most MaxEarly invocations run ahead of the
\* row-major order of the others.
MaxEarly == 1
\* On one engine at most MaxUndefinedAlive reads outside a buffer return 1.
MaxUndefinedAlive == 1
\* The frame loop runs MaxFrames frames.
MaxFrames == 2
\* Window sides of resize events are 0 .. MaxWindow half pixels.
MaxWindow == 66

\* ------------------------------------------------------------ the state
VARIABLES
    life_in,      \* GameOfLife.life_in : flat row-major array of u32
    life_out,     \* GameOfLife.life_out
    image,        \* GameOfLife.image : one texel per cell
    sim_steps,    \* GameOfLife.sim_steps : u32
    pc,           \* position of the control thread: "idle", "exec" (inside
                  \* compute, command buffer submitted), "run" (a dispatch runs)
    cmds,         \* dispatches recorded in the command buffer, not yet started
    push,         \* push constants of the dispatch that runs
    pending,      \* invocations of the running dispatch that have not run yet
    lastOp,       \* history: the operation called last
    edits,        \* history: draw_life calls on this engine
    steps_done,   \* history: compute calls that returned on this engine
    drawn,        \* history: the last draw_life call (pos, radius, buffer, writes)
    inv,          \* history: what the last compute_life invocation read and wrote
    dispatched,   \* history: phases of the dispatches started by this compute call
    gen_prev,     \* history: the authoritative grid when the last compute began
    early,        \* invocations of the running dispatch that ran ahead of order
                  \* (0 when no dispatch runs)
    undefined_ones, \* history: reads outside a buffer that returned 1
    written_buf,  \* history: the buffer(s) the last simulation dispatch wrote
    dirtyRead,    \* history: an invocation read a word written by another
                  \* invocation of the same dispatch
    edited,       \* history: the buffer and the cells draw_life set alive since
                  \* the last compute call returned
    stage,        \* position of the control thread in the frame schedule
    frame,        \* frames completed
    future,       \* render: the frame future, the GPU work chained so far
    gpu_queue,    \* graphics work flushed to the queue and not yet executed
    gfx_log,      \* history: graphics work executed in this frame
    presented,    \* history: frames presented
    logged,       \* history: errors logged by render
    frame_ops,    \* history: engine operations and render outcomes of this frame
    resize_event, \* the last WindowResized event handled (half pixels)
    size          \* the size passed to GameOfLife::new

engine_vars == <<life_in, life_out, image, sim_steps, pc, cmds, push, pending,
                 lastOp, edits, steps_done, drawn, inv, dispatched, gen_prev,
                 early, undefined_ones, written_buf, dirtyRead, edited>>

app_vars == <<stage, frame, future, gpu_queue, gfx_log, presented, logged,
              frame_ops, resize_event, size>>

vars == <<life_in, life_out, image, sim_steps, pc, cmds, push, pending,
          lastOp, edits, steps_done, drawn, inv, dispatched, gen_prev,
          early, undefined_ones, written_buf, dirtyRead, edited,
          stage, frame, future, gpu_queue, gfx_log, presented, logged,
          frame_ops, resize_event, size>>

Cells == 0 .. (Width * Height - 1)

Grid(alive) == [i \in Cells |-> IF i \in alive THEN 1 ELSE 0]

\* rand_grid draws every cell from 0..=1; the model starts from these grids.
RowOne == {i \in Cells : i \div Width = 1}
InitGrids == {Grid(Cells), Grid({}), Grid(RowOne)}

\* simulate (lib.rs) passes these colors to compute.
LifeColor == <<1, 0, 0, 1>>
DeadColor == <<0, 0, 0, 0>>

\* Contents of the storage image before the first colorization (a texel
\* that is neither of the two colors).
Undef == <<0 - 1, 0 - 1, 0 - 1, 0 - 1>>

NoPush == [life_color |-> LifeColor, dead_color |-> DeadColor, step |-> 0 - 1, swap_read_order |-> FALSE]
NoDraw == [pos |-> <<0, 0>>, radius |-> 0 - 1, buf |-> "none", writes |-> {}]
NoInv == [current_life |-> 0 - 1, alive_count |-> 0 - 1, written |-> 0 - 1,
          wrapped |-> 0 - 1]
NoEdit == [buf |-> "none", cells |-> {}]

\* lib.rs: the grid created at startup, the clear color of render, the scale
\* of the resize handler; the shader's local size (local_size_x, local_size_y).
WIDTH == 128
HEIGHT == 256
CLEAR_COLOR == <<0, 0, 0, 0>>
Scale == 2
LocalSize == 8

NoEvent == <<0 - 1, 0 - 1>>

\* startup: the engine of WIDTH x HEIGHT cells and the render pass exist, the
\* first frame begins.
StartupState ==
    /\ stage = "update"
    /\ frame = 0
    /\ future = <<>>
    /\ gpu_queue = <<>>
    /\ gfx_log = <<>>
    /\ presented = 0
    /\ logged = 0
    /\ frame_ops = <<>>
    /\ resize_event = NoEvent
    /\ size = <<WIDTH, HEIGHT>>

\* ------------------------------------------------------------ GameOfLife::new
NewState ==
    /\ life_in' \in InitGrids
    /\ life_out' \in InitGrids
    /\ image' = [i \in Cells |-> Undef]
    /\ sim_steps' = 0
    /\ pc' = "idle"
    /\ cmds' = <<>>
    /\ push' = NoPush
    /\ pending' = {}
    /\ lastOp' = "new"
    /\ edits' = 0
    /\ steps_done' = 0
    /\ drawn' = NoDraw
    /\ inv' = NoInv
    /\ dispatched' = <<>>
    /\ gen_prev' = life_out'
    /\ written_buf' = {}
    /\ early' = 0
    /\ undefined_ones' = 0
    /\ dirtyRead' = FALSE
    /\ edited' = NoEdit

Init ==
    /\ life_in \in InitGrids
    /\ life_out \in InitGrids
    /\ image = [i \in Cells |-> Undef]
    /\ sim_steps = 0
    /\ pc = "idle"
    /\ cmds = <<>>
    /\ push = NoPush
    /\ pending = {}
    /\ lastOp = "new"
    /\ edits = 0
    /\ steps_done = 0
    /\ drawn = NoDraw
    /\ inv = NoInv
    /\ dispatched = <<>>
    /\ gen_prev = life_out
    /\ written_buf = {}
    /\ early = 0
    /\ undefined_ones = 0
    /\ dirtyRead = FALSE
    /\ edited = NoEdit
    /\ StartupState

\* update_image_size_on_resize replaces the engine by a new one.
New ==
    /\ pc = "idle"
    /\ NewState

\* ------------------------------------------------------ color_image
ColorImage ==
    /\ pc = "idle"
    /\ lastOp' = "color_image"
    /\ drawn' = NoDraw
    /\ UNCHANGED <<life_in, life_out, image, sim_steps, pc, cmds, push, pending,
                   edits, steps_done, inv, dispatched, gen_prev,
                   early, undefined_ones, written_buf, dirtyRead, edited>>

\* ------------------------------------------------------ draw_life
\* The bounds test of draw_life (lines 105 and 121), negated: the position is
\* inside the image.
InsideImage(x, y) == ~(y < 0 \/ y >= Height \/ x < 0 \/ x >= Width)

\* Vec2::distance(..).round(): the integer nearest to sqrt(dx^2 + dy^2).
RoundedDistance(ax, ay, bx, by) ==
    LET d2 == (ax - bx) * (ax - bx) + (ay - by) * (ay - by)
    IN  CHOOSE k \in 0 .. (d2 + 1) :
            /\ (k = 0 \/ (2 * k - 1) * (2 * k - 1) <= 4 * d2)
            /\ 4 * d2 < (2 * k + 1) * (2 * k + 1)

\* draw_life locking the other buffer of the pair.
DrawBufferOtherParity(steps) == IF steps % 2 = 0 THEN "in" ELSE "out"

\* The buffer draw_life locks for writing.
DrawBuffer(steps) == IF steps % 2 = 0 THEN "out" ELSE "in"

\* The scan without the bounds test of line 121.
ScanIndicesSkipNothing(px, py, radius) ==
    {y * Width + x : <<x, y>> \in
        {q \in ((px - radius) .. (px + radius)) \X ((py - radius) .. (py + radius)) :
            RoundedDistance(q[1], q[2], px, py) <= radius}}

\* The scan of draw_life: the flat indices index = pos.y * size[0] + pos.x it
\* reaches, for the scan coordinates that pass the distance test and are not
\* skipped by the bounds test.
ScanIndices(px, py, radius) ==
    {y * Width + x : <<x, y>> \in
        {q \in ((px - radius) .. (px + radius)) \X ((py - radius) .. (py + radius)) :
            /\ RoundedDistance(q[1], q[2], px, py) <= radius
            /\ InsideImage(q[1], q[2])}}

\* draw_life without the early return of lines 105-107.
DrawTargetsNoReturn(px, py, radius) == ScanIndices(px, py, radius)

\* The indices one call may set: none when the centre is outside the image.
DrawTargets(px, py, radius) ==
    IF ~InsideImage(px, py) THEN {} ELSE ScanIndices(px, py, radius)

\* The chosen cells toggled instead of set.
SetAliveToggles(buffer, indices) ==
    [i \in Cells |-> IF i \in indices THEN 1 - buffer[i] ELSE buffer[i]]

\* life_in[index] = 1 for the indices whose random draw exceeded 0.5.
SetAlive(buffer, indices) ==
    [i \in Cells |-> IF i \in indices THEN 1 ELSE buffer[i]]

\* Centres given to draw_life: the corner of the image and one on each side
\* just outside it (x = -1, y = -1, x = width, y = height).
DrawPositions ==
    {<<0, 0>>, <<0 - 1, 1>>, <<1, 0 - 1>>, <<Width, 1>>, <<1, Height>>}

DrawLife(px, py, radius) ==
    /\ pc = "idle"
    /\ edits < MaxEdits
    /\ \E chosen \in SUBSET DrawTargets(px, py, radius) :
        /\ IF DrawBuffer(sim_steps) = "out"
             THEN /\ life_out' = SetAlive(life_out, chosen)
                  /\ life_in' = life_in
             ELSE /\ life_in' = SetAlive(life_in, chosen)
                  /\ life_out' = life_out
        /\ drawn' = [pos |-> <<px, py>>, radius |-> radius,
                     buf |-> DrawBuffer(sim_steps), writes |-> chosen]
    /\ edited' =
          LET turned == {i \in Cells : life_in'[i] + life_out'[i] > life_in[i] + life_out[i]}
          IN  IF turned = {} THEN edited
              ELSE [buf |-> DrawBuffer(sim_steps), cells |-> edited.cells \cup turned]
    /\ lastOp' = "draw_life"
    /\ edits' = edits + 1
    /\ UNCHANGED <<image, sim_steps, pc, cmds, push, pending, steps_done, inv,
                   dispatched, gen_prev, early, undefined_ones, written_buf,
                   dirtyRead>>

\* ------------------------------------------------------ the compute shader
\* get_index: pos.y * dims.x + pos.x, dims = imageSize(img).
get_index(x, y) == y * Width + x

\* The index addresses a word of a grid buffer (Width * Height words long).
InBuffer(i) == i \in Cells

\* compute_life: up_left, up, up_right, right, down_right, down, down_left, left.
NeighbourOffsets ==
    {<<0 - 1, 1>>, <<0, 1>>, <<1, 1>>, <<1, 0>>,
     <<1, 0 - 1>>, <<0, 0 - 1>>, <<0 - 1, 0 - 1>>, <<0 - 1, 0>>}

NeighbourIndex(x, y, o) == get_index(x + o[1], y + o[2])

\* The buffer the eight neighbour reads address: life_out, whatever
\* swap_read_order is (lines 267-274).
NeighbourSource(swap) == "out"

\* Neighbours whose word lies in the buffer and holds 1 in life_out.
AliveInBuffer(x, y) ==
    {o \in NeighbourOffsets :
        InBuffer(NeighbourIndex(x, y, o)) /\ life_out[NeighbourIndex(x, y, o)] = 1}

\* Neighbours counted alive whose coordinates lie outside the grid: the word
\* read for them belongs to a cell of the row above or below.
WrappedAlive(x, y) ==
    {o \in AliveInBuffer(x, y) : ~InsideImage(x + o[1], y + o[2])}

\* Neighbours whose index lies outside the buffer: the read is undefined.
OutsideBuffer(x, y) ==
    {o \in NeighbourOffsets : ~InBuffer(NeighbourIndex(x, y, o))}

\* read_life
read_life(index, swap) == IF swap THEN life_out[index] ELSE life_in[index]

\* write_life ignoring swap_read_order.
WriteTargetNeverSwaps(swap) == "out"

\* The buffer write_life stores into, and the one read_life loads from.
WriteTarget(swap) == IF swap THEN "in" ELSE "out"
ReadSource(swap) == IF swap THEN "out" ELSE "in"

\* The last branch storing the count in place of current_life.
NextLifeStoresCount(current_life, alive_count) ==
    IF current_life = 0 /\ alive_count = 3 THEN 1
    ELSE IF (current_life = 1 /\ alive_count < 2) \/ alive_count > 3 THEN 0
    ELSE alive_count

\* The chain with alive_count <= 2 in place of alive_count < 2.
NextLifeDiesAtTwo(current_life, alive_count) ==
    IF current_life = 0 /\ alive_count = 3 THEN 1
    ELSE IF (current_life = 1 /\ alive_count <= 2) \/ alive_count > 3 THEN 0
    ELSE current_life

\* The if / else-if / else chain of compute_life (&& binds tighter than ||).
NextLife(current_life, alive_count) ==
    IF current_life = 0 /\ alive_count = 3 THEN 1
    ELSE IF (current_life = 1 /\ alive_count < 2) \/ alive_count > 3 THEN 0
    ELSE current_life

\* gl_GlobalInvocationID.xy over dispatch([w / 8, h / 8, 1]) with local size
\* 8 x 8: one invocation per cell of a grid whose sides are multiples of 8.
GlobalInvocations == (0 .. (Width - 1)) \X (0 .. (Height - 1))

\* Words of life_out this dispatch has written so far.
WrittenSoFar ==
    IF push.step = 0 /\ WriteTarget(push.swap_read_order) = "out"
        THEN {get_index(p[1], p[2]) : p \in GlobalInvocations \ pending}
        ELSE {}

\* How many of this invocation's reads outside the buffer may return 1.
UndefinedAliveMax(x, y) ==
    IF Cardinality(OutsideBuffer(x, y)) < MaxUndefinedAlive - undefined_ones
        THEN Cardinality(OutsideBuffer(x, y))
        ELSE MaxUndefinedAlive - undefined_ones

compute_life(x, y) ==
    LET index == get_index(x, y)
        swap == push.swap_read_order
        current_life == read_life(index, swap)
    IN  \E undefined_alive \in 0 .. UndefinedAliveMax(x, y) :
          LET alive_count == Cardinality(AliveInBuffer(x, y)) + undefined_alive
              life == NextLife(current_life, alive_count)
          IN  /\ IF WriteTarget(swap) = "in"
                   THEN /\ life_in' = [life_in EXCEPT ![index] = life]
                        /\ life_out' = life_out
                   ELSE /\ life_out' = [life_out EXCEPT ![index] = life]
                        /\ life_in' = life_in
              /\ inv' = [current_life |-> current_life,
                         alive_count |-> alive_count, written |-> life,
                         wrapped |-> Cardinality(WrappedAlive(x, y))]
              /\ undefined_ones' = undefined_ones + undefined_alive
              /\ written_buf' =
                    (IF pending = GlobalInvocations THEN {} ELSE written_buf)
                        \cup {WriteTarget(swap)}
              /\ dirtyRead' =
                    (dirtyRead \/
                     \E o \in NeighbourOffsets :
                        /\ NeighbourIndex(x, y, o) # index
                        /\ NeighbourIndex(x, y, o) \in WrittenSoFar)
              /\ image' = image

\* compute_color storing a texel only for an alive cell.
compute_color_alive_only(x, y) ==
    LET index == get_index(x, y)
    IN  /\ image' = [image EXCEPT ![index] =
                        IF life_out[index] = 1 THEN push.life_color ELSE @]
        /\ UNCHANGED <<life_in, life_out, inv, undefined_ones, written_buf,
                       dirtyRead>>

compute_color(x, y) ==
    LET index == get_index(x, y)
    IN  /\ image' = [image EXCEPT ![index] =
                        IF life_out[index] = 1 THEN push.life_color
                                               ELSE push.dead_color]
        /\ UNCHANGED <<life_in, life_out, inv, undefined_ones, written_buf,
                       dirtyRead>>

\* main
ShaderMain(x, y) ==
    IF push.step = 0 THEN compute_life(x, y) ELSE compute_color(x, y)

\* ------------------------------------------------------ compute
PushConstants(life_color, dead_color, step, swap) ==
    [life_color |-> life_color, dead_color |-> dead_color,
     step |-> step, swap_read_order |-> swap]

\* The two dispatch calls recorded in the opposite order.
RecordedDispatchesColorFirst(life_color, dead_color, steps) ==
    << PushConstants(life_color, dead_color, 1, FALSE),
       PushConstants(life_color, dead_color, 0, steps % 2 = 0) >>

\* The two dispatch calls of compute, in the order they are recorded.
RecordedDispatches(life_color, dead_color, steps) ==
    << PushConstants(life_color, dead_color, 0, steps % 2 = 0),
       PushConstants(life_color, dead_color, 1, FALSE) >>

\* The grid that holds the generation the last simulation dispatch wrote
\* (life_out, the grid the first step reads, before any step).
LastGeneration == IF written_buf = {"in"} THEN life_in ELSE life_out

\* compute up to builder.build() and execute(): the command buffer is submitted.
ComputeSubmit ==
    /\ pc = "idle"
    /\ sim_steps < MaxSteps
    /\ cmds' = RecordedDispatches(LifeColor, DeadColor, sim_steps)
    /\ pc' = "exec"
    /\ lastOp' = "compute"
    /\ dispatched' = <<>>
    /\ gen_prev' = LastGeneration
    /\ drawn' = NoDraw
    /\ inv' = NoInv
    /\ dirtyRead' = FALSE
    /\ UNCHANGED <<life_in, life_out, image, sim_steps, push, pending, edits,
                   steps_done, early, undefined_ones, written_buf, edited>>

\* The device starts the next recorded dispatch once the one before it has
\* finished (the builder synchronises dispatches that use the same buffers).
StartDispatch ==
    /\ pc = "exec"
    /\ cmds # <<>>
    /\ push' = Head(cmds)
    /\ cmds' = Tail(cmds)
    /\ pending' = GlobalInvocations
    /\ pc' = "run"
    /\ early' = 0
    /\ dispatched' = Append(dispatched, Head(cmds).step)
    /\ UNCHANGED <<life_in, life_out, image, sim_steps, lastOp, edits, steps_done,
                   drawn, inv, gen_prev, undefined_ones, written_buf, dirtyRead,
                   edited>>

\* The invocation is the first of the pending ones in row-major order.
InOrder(x, y) ==
    \A p \in pending : get_index(x, y) <= get_index(p[1], p[2])

\* One invocation of the running dispatch runs: the next in row-major order,
\* or any other one ahead of it (at most MaxEarly times in a dispatch).
Invoke(x, y) ==
    /\ pc = "run"
    /\ <<x, y>> \in pending
    /\ InOrder(x, y) \/ early < MaxEarly
    /\ early' = IF pending = {<<x, y>>} THEN 0
                ELSE IF InOrder(x, y) THEN early ELSE early + 1
    /\ ShaderMain(x, y)
    /\ pending' = pending \ {<<x, y>>}
    /\ pc' = IF pending' = {} THEN "exec" ELSE "run"
    /\ UNCHANGED <<sim_steps, cmds, push, lastOp, edits, steps_done, drawn,
                   dispatched, gen_prev, edited>>

\* The counter incremented once per dispatch instead of once per call.
StepsAfterComputePerDispatch(steps) == steps + 2

\* self.sim_steps += 1
StepsAfterCompute(steps) == steps + 1

\* compute going on without the wait on the fence.
FenceNotAwaited == TRUE

\* The fence of the submitted command buffer is signalled: every recorded
\* dispatch has run to its end.
FenceSignalled == cmds = <<>> /\ pending = {}

\* then_signal_fence_and_flush().wait(None) returns; self.sim_steps += 1.
ComputeReturn ==
    /\ pc = "exec"
    /\ FenceSignalled
    /\ sim_steps' = StepsAfterCompute(sim_steps)
    /\ steps_done' = steps_done + 1
    /\ pc' = "idle"
    /\ edited' = NoEdit
    /\ UNCHANGED <<life_in, life_out, image, cmds, push, pending, lastOp, edits,
                   drawn, inv, dispatched, gen_prev, early, undefined_ones,
                   written_buf, dirtyRead>>

\* ------------------------------------------------------ the frame loop
\* The schedule with simulate ordered before draw_life_system.
NextStageSimulateFirst(s) ==
    CASE s = "simulate" -> "update"
      [] s = "update" -> "post_update"
      [] s = "post_update" -> "last"
      [] s = "last" -> "simulate"

\* main: the stages of one frame in schedule order. Update runs
\* draw_life_system and then simulate (simulate.after(draw_life_system)),
\* PostUpdate runs render, Last runs update_image_size_on_resize.
NextStage(s) ==
    CASE s = "update" -> "simulate"
      [] s = "simulate" -> "post_update"
      [] s = "post_update" -> "last"
      [] s = "last" -> "update"

\* draw_life_system: the positions it computes from the cursor, clamped to
\* 0 ..= size (here a corner and one on each far side, one past the last
\* cell), and the one radius it passes (6 in lib.rs; here the disc of one cell).
SystemDrawPositions == {<<0, 0>>, <<Width, 1>>, <<1, Height>>}
SystemDrawRadius == 0

\* draw_life_system: one draw_life call (the pressed mouse button, or one
\* touch of the touches it iterates over).
DrawLifeSystemCall(px, py, radius) ==
    /\ stage = "update"
    /\ frame < MaxFrames
    /\ DrawLife(px, py, radius)
    /\ frame_ops' = Append(frame_ops, "edit")
    /\ UNCHANGED <<stage, frame, future, gpu_queue, gfx_log, presented, logged,
                   resize_event, size>>

\* draw_life_system returns.
DrawLifeSystemReturn ==
    /\ stage = "update"
    /\ frame < MaxFrames
    /\ pc = "idle"
    /\ stage' = NextStage(stage)
    /\ UNCHANGED engine_vars
    /\ UNCHANGED <<frame, future, gpu_queue, gfx_log, presented, logged,
                   frame_ops, resize_event, size>>

\* simulate, when the fixed timestep says a step is due: compute is called.
Simulate ==
    /\ stage = "simulate"
    /\ ComputeSubmit
    /\ frame_ops' = Append(frame_ops, "step")
    /\ UNCHANGED <<stage, frame, future, gpu_queue, gfx_log, presented, logged,
                   resize_event, size>>

\* The fixed timestep says no (further) step is due in this frame.
SimulateNotDue ==
    /\ stage = "simulate"
    /\ pc = "idle"
    /\ stage' = NextStage(stage)
    /\ UNCHANGED engine_vars
    /\ UNCHANGED <<frame, future, gpu_queue, gfx_log, presented, logged,
                   frame_ops, resize_event, size>>

\* One unit of GPU work of a frame future.
Work(op, what, color, n) == [op |-> op, what |-> what, color |-> color, n |-> n]

\* textured_quad: the indices of the two triangles of the quad.
QuadIndices == <<0, 2, 1, 0, 3, 2>>

\* DrawQuadPipeline::draw: the commands it records, in order.
QuadDraw(viewport, img) ==
    << Work("set_viewport", viewport, <<>>, 0),
       Work("bind_pipeline_graphics", "quad_pipeline", <<>>, 0),
       Work("bind_descriptor_sets", img, <<>>, 0),
       Work("push_constants", "world_to_screen", <<>>, 0),
       Work("bind_vertex_buffers", "vertices", <<>>, 0),
       Work("bind_index_buffer", "indices", <<>>, 0),
       Work("draw_indexed", img, <<>>, Len(QuadIndices)) >>

\* The render pass ended before the commands of the quad are executed.
FillScreenDrawEndsFirst(before_future, canvas_image, target, clear_color) ==
    before_future
        \o << Work("begin_render_pass", target, clear_color, 0) >>
        \o << Work("end_render_pass", target, <<>>, 0) >>
        \o QuadDraw(target, canvas_image)

\* FillScreenRenderPass::draw: the future it returns, the command buffer it
\* built chained after before_future (the commands of the secondary command
\* buffer stand where execute_commands puts them).
FillScreenDraw(before_future, canvas_image, target, clear_color) ==
    before_future
        \o << Work("begin_render_pass", target, clear_color, 0) >>
        \o QuadDraw(target, canvas_image)
        \o << Work("end_render_pass", target, <<>>, 0) >>

\* render going on after a failed acquire.
StageAfterAcquireIgnoringError(ok) == "acquired"

\* render: what follows primary_window.acquire().
StageAfterAcquire(ok) == IF ok THEN "acquired" ELSE NextStage("post_update")

\* render up to the match on primary_window.acquire(): the frame future on
\* success; on failure the error is logged and render returns.
RenderAcquire(ok) ==
    /\ stage = "post_update"
    /\ pc = "idle"
    /\ stage' = StageAfterAcquire(ok)
    /\ IF ok
         THEN /\ future' = << Work("acquire", "swapchain_image", <<>>, 0) >>
              /\ UNCHANGED <<logged, frame_ops>>
         ELSE /\ logged' = logged + 1
              /\ frame_ops' = Append(frame_ops, "acquire_failed")
              /\ future' = future
    /\ UNCHANGED engine_vars
    /\ UNCHANGED <<frame, gpu_queue, gfx_log, presented, resize_event, size>>

\* render: color_image(), swapchain_image_view() and fill_screen.draw(..).
RenderDraw ==
    /\ stage = "acquired"
    /\ ColorImage
    /\ future' = FillScreenDraw(future, "color_image", "swapchain_image", CLEAR_COLOR)
    /\ frame_ops' = Append(frame_ops, "composite")
    /\ stage' = "drawn"
    /\ UNCHANGED <<frame, gpu_queue, gfx_log, presented, logged, resize_event, size>>

\* render: primary_window.present(after_render, true) chains the present
\* after the future and flushes it to the queue.
RenderPresent ==
    /\ stage = "drawn"
    /\ gpu_queue' = Append(future, Work("present", "swapchain_image", <<>>, 0))
    /\ future' = <<>>
    /\ stage' = "presenting"
    /\ UNCHANGED engine_vars
    /\ UNCHANGED <<frame, gfx_log, presented, logged, frame_ops, resize_event, size>>

\* The queue executes the next unit of the flushed work.
GpuExecute ==
    /\ gpu_queue # <<>>
    /\ gfx_log' = Append(gfx_log, Head(gpu_queue))
    /\ gpu_queue' = Tail(gpu_queue)
    /\ UNCHANGED engine_vars
    /\ UNCHANGED <<stage, frame, future, presented, logged, frame_ops,
                   resize_event, size>>

\* present(.., true) has waited for the flushed work; render returns.
RenderReturn ==
    /\ stage = "presenting"
    /\ gpu_queue = <<>>
    /\ presented' = presented + 1
    /\ stage' = NextStage("post_update")
    /\ UNCHANGED engine_vars
    /\ UNCHANGED <<frame, future, gpu_queue, gfx_log, logged, frame_ops,
                   resize_event, size>>

\* e.width as u32 (the event's side in half pixels): truncation.
AsU32(half_pixels) == half_pixels \div 2

\* dispatch: the work-group counts [img_dims[0] / 8, img_dims[1] / 8, 1].
DispatchGroups(dims) == << dims[1] \div LocalSize, dims[2] \div LocalSize >>

\* gl_GlobalInvocationID.xy of the invocations of that many work groups of
\* LocalSize x LocalSize invocations.
DispatchInvocations(groups) ==
    (0 .. (groups[1] * LocalSize - 1)) \X (0 .. (groups[2] * LocalSize - 1))

\* get_index for an image of the given dimensions.
get_index_in(dims, x, y) == y * dims[1] + x

\* Half the side without rounding down to the local size.
ResizedSideNotRounded(side) == AsU32(side) \div Scale

\* update_image_size_on_resize: width and height of the new engine.
ResizedSide(side) ==
    AsU32(side) \div Scale - ((AsU32(side) \div Scale) % LocalSize)

ResizedSize(e) == << ResizedSide(e[1]), ResizedSide(e[2]) >>

\* update_image_size_on_resize with an event: the engine is replaced.
ResizeEngine(e) ==
    /\ New
    /\ resize_event' = e
    /\ size' = ResizedSize(e)

\* One frame follows another.
FrameEnds ==
    /\ stage = "last"
    /\ frame < MaxFrames
    /\ stage' = NextStage(stage)
    /\ frame' = frame + 1
    /\ frame_ops' = <<>>
    /\ gfx_log' = <<>>
    /\ UNCHANGED <<future, gpu_queue, presented, logged>>

\* The resize events of the frame loop (half pixels): the window is resized
\* during the last of the MaxFrames frames.
FrameResizeEvents == IF frame + 1 = MaxFrames THEN {<<40, 70>>} ELSE {}

\* update_image_size_on_resize: the last event of the frame, if there is one.
UpdateImageSizeOnResize(e) ==
    /\ FrameEnds
    /\ IF e = NoEvent
         THEN UNCHANGED engine_vars /\ UNCHANGED <<resize_event, size>>
         ELSE ResizeEngine(e)

AppNext ==
    \/ \E pos \in SystemDrawPositions :
            DrawLifeSystemCall(pos[1], pos[2], SystemDrawRadius)
    \/ DrawLifeSystemReturn
    \/ Simulate
    \/ StartDispatch /\ UNCHANGED app_vars
    \/ \E p \in GlobalInvocations : Invoke(p[1], p[2]) /\ UNCHANGED app_vars
    \/ ComputeReturn /\ UNCHANGED app_vars
    \/ SimulateNotDue
    \/ \E ok \in BOOLEAN : RenderAcquire(ok)
    \/ RenderDraw
    \/ RenderPresent
    \/ GpuExecute
    \/ RenderReturn
    \/ \E e \in FrameResizeEvents \cup {NoEvent} : UpdateImageSizeOnResize(e)

\* The frame loop starts from the engines whose life_in is all dead.
AppInit ==
    /\ Init
    /\ life_in = Grid({})

AppSpec == AppInit /\ [][AppNext]_vars

\* Window sizes of the first resize event after startup (half pixels).
WindowSizes == (0 .. MaxWindow) \X (0 .. MaxWindow)

ResizeNext ==
    \E e \in WindowSizes :
        /\ resize_event = NoEvent
        /\ ResizeEngine(e)
        /\ UNCHANGED <<stage, frame, future, gpu_queue, gfx_log, presented,
                       logged, frame_ops>>

ResizeSpec == Init /\ [][ResizeNext]_vars

\* The engine alone: its operations called in any order.
Next ==
    \/ New /\ UNCHANGED app_vars
    \/ ColorImage /\ UNCHANGED app_vars
    \/ \E pos \in DrawPositions, radius \in 0 .. MaxRadius :
            DrawLife(pos[1], pos[2], radius) /\ UNCHANGED app_vars
    \/ ComputeSubmit /\ UNCHANGED app_vars
    \/ StartDispatch /\ UNCHANGED app_vars
    \/ \E p \in GlobalInvocations : Invoke(p[1], p[2]) /\ UNCHANGED app_vars
    \/ ComputeReturn /\ UNCHANGED app_vars

Spec == Init /\ [][Next]_vars

\* ================================================================ claims
\* The swap flag of the simulation dispatch that the next compute call records.
NextSwap == RecordedDispatches(LifeColor, DeadColor, sim_steps)[1].swap_read_order

BufferOf(name) == IF name = "in" THEN life_in ELSE life_out

ColorOf(life) == IF life = 1 THEN LifeColor ELSE DeadColor

\* Conway's rule on grid coordinates, for a cell whose neighbours are all
\* inside the grid.
MooreOffsets == {d \in (0 - 1 .. 1) \X (0 - 1 .. 1) : d # <<0, 0>>}
Conway(g, x, y) ==
    LET n == Cardinality({d \in MooreOffsets : g[(y + d[2]) * Width + (x + d[1])] = 1})
    IN  IF g[y * Width + x] = 1
            THEN (IF n = 2 \/ n = 3 THEN 1 ELSE 0)
            ELSE (IF n = 3 THEN 1 ELSE 0)
InteriorCells == (1 .. (Width - 2)) \X (1 .. (Height - 2))

\* C1: while a simulation dispatch runs, the neighbour reads and the read of
\* the cell's own state address a buffer other than the one being written,
\* and no invocation has read a word that another invocation of the same
\* dispatch wrote.
C1_ReadsPreviousWritesOther ==
    (pc = "run" /\ push.step = 0) =>
        /\ NeighbourSource(push.swap_read_order) # WriteTarget(push.swap_read_order)
        /\ ReadSource(push.swap_read_order) # WriteTarget(push.swap_read_order)
        /\ dirtyRead = FALSE

\* C2: when compute returns, every texel holds the alive color if the cell is
\* alive in the generation the simulation dispatch of this step wrote, and the
\* dead color otherwise.
C2_ColorOfNewGeneration ==
    (pc = "idle" /\ lastOp = "compute") =>
        \A i \in Cells : image[i] = ColorOf(LastGeneration[i])

\* C3: with no user edit on the engine, the generation a step wrote is Conway's
\* rule applied once to the generation the step before wrote (for the first
\* step, to the initial contents of the grid it reads), on every interior cell.
C3_StepAppliesRuleOnce ==
    (pc = "idle" /\ lastOp = "compute" /\ edits = 0) =>
        \A c \in InteriorCells :
            LastGeneration[get_index(c[1], c[2])] = Conway(gen_prev, c[1], c[2])

\* C4: the value a simulation invocation writes is alive exactly when the cell
\* was dead with 3 alive neighbours counted, or alive with 2 or 3; dead otherwise.
C4_RuleTable ==
    (inv # NoInv) =>
        /\ inv.current_life \in {0, 1}
        /\ inv.alive_count \in 0 .. 8
        /\ inv.written =
              (IF \/ (inv.current_life = 0 /\ inv.alive_count = 3)
                  \/ (inv.current_life = 1 /\ inv.alive_count \in {2, 3})
                 THEN 1 ELSE 0)

C4_Witness ==
    /\ inv.current_life = 0
    /\ inv.alive_count > 3
    /\ inv.written = 0

\* C5: after N completed steps the buffer the last simulation dispatch wrote
\* is life_in for odd N and life_out for even N, whatever edits came between.
C5_WrittenBufferAlternates ==
    (pc = "idle" /\ steps_done > 0) =>
        written_buf = (IF steps_done % 2 = 1 THEN {"in"} ELSE {"out"})

C5_Witness ==
    /\ pc = "idle"
    /\ steps_done = 2
    /\ edits > 0
    /\ written_buf = {"out"}

\* C6: the step counter equals the number of compute calls that returned on
\* this engine; it changes only when compute returns (by +1) or when the engine
\* is constructed again (to 0).
C6_CounterCountsSteps ==
    /\ [](sim_steps = steps_done)
    /\ [][sim_steps' # sim_steps =>
            \/ (pc = "exec" /\ pc' = "idle" /\ sim_steps' = sim_steps + 1)
            \/ (lastOp' = "new" /\ sim_steps' = 0)]_vars
    /\ [][lastOp' \in {"draw_life", "color_image"} => sim_steps' = sim_steps]_vars

C6_Witness ==
    /\ sim_steps = 2
    /\ edits > 0
    /\ lastOp = "color_image"

\* C7: a compute call starts exactly two dispatches, phase 0 then phase 1; the
\* phase 1 dispatch starts only when no invocation of phase 0 is pending; the
\* counter is incremented only when both have run to the end.
C7_SimulationThenColor ==
    /\ []((pc = "idle" /\ lastOp = "compute") => dispatched = <<0, 1>>)
    /\ []((pc = "run" /\ push.step = 1) => dispatched = <<0, 1>>)
    /\ [][(pc' = "run" /\ pc = "exec" /\ push'.step = 1) =>
            (pending = {} /\ dispatched = <<0>>)]_vars
    /\ [][(sim_steps' = sim_steps + 1) =>
            (dispatched = <<0, 1>> /\ pending = {} /\ cmds = <<>>)]_vars

C7_Witness ==
    /\ pc = "idle"
    /\ lastOp = "compute"
    /\ sim_steps = 2
    /\ dispatched = <<0, 1>>

\* C8 as claimed: draw_life sets cells alive in the buffer the next simulation
\* dispatch will write, which is not the one a simulation dispatch wrote last.
C8_DrawEditsWritableBuffer ==
    (lastOp = "draw_life" /\ drawn.writes # {}) =>
        /\ drawn.buf = WriteTarget(NextSwap)
        /\ drawn.buf \notin written_buf

\* C8 amended: draw_life sets cells alive only in the buffer the next
\* simulation dispatch reads each cell's own state from (once a step has run,
\* the buffer the last simulation dispatch wrote), and leaves the buffer the
\* next simulation dispatch will write unchanged.
C8_DrawEditsNextInput ==
    [][lastOp' = "draw_life" =>
        /\ drawn'.buf = ReadSource(NextSwap)
        /\ BufferOf(WriteTarget(NextSwap))' = BufferOf(WriteTarget(NextSwap))
        /\ (written_buf # {} => written_buf = {drawn'.buf})]_vars

C8_Witness ==
    /\ lastOp = "draw_life"
    /\ drawn.writes # {}
    /\ sim_steps = 1
    /\ drawn.buf = "in"

\* C9: draw_life with a centre outside the grid leaves both grid buffers, the
\* color image and the step counter unchanged, for every radius.
C9_OutsideCentreIsNoOp ==
    [][(/\ lastOp' = "draw_life"
        /\ \/ drawn'.pos[1] < 0 \/ drawn'.pos[2] < 0
           \/ drawn'.pos[1] >= Width \/ drawn'.pos[2] >= Height) =>
        UNCHANGED <<life_in, life_out, image, sim_steps>>]_vars

C9_Witness ==
    /\ lastOp = "draw_life"
    /\ drawn.pos = <<Width, 1>>
    /\ drawn.radius = 1

\* C10: draw_life changes only cells of the grid whose distance to the centre,
\* rounded to the nearest integer, is at most the radius; with centre (0,0) and
\* radius 0 no cell but cell (0,0) changes.
WithinRadius(i, pos, radius) ==
    LET dx == (i % Width) - pos[1]
        dy == (i \div Width) - pos[2]
    IN  4 * (dx * dx + dy * dy) < (2 * radius + 1) * (2 * radius + 1)

C10_DrawStaysInDisc ==
    [][lastOp' = "draw_life" =>
        \A i \in Cells :
            (life_in'[i] # life_in[i] \/ life_out'[i] # life_out[i]) =>
                /\ WithinRadius(i, drawn'.pos, drawn'.radius)
                /\ (drawn'.pos = <<0, 0>> /\ drawn'.radius = 0) => i = 0]_vars

C10_Witness ==
    /\ lastOp = "draw_life"
    /\ drawn.pos = <<0, 0>>
    /\ drawn.radius = 1
    /\ Cardinality(drawn.writes) >= 2

\* Dispatches of a compute call are recorded or running on the device.
DispatchesInFlight == cmds # <<>> \/ pending # {}

\* C11: while dispatches of a step are in flight the control thread is inside
\* that compute call of the simulate system and no graphics work is chained,
\* queued or executing; compute returns only when both dispatches have run to
\* the end; no draw_life call, no execution of composite work and no
\* submission of another step happens while dispatches are in flight.
C11_StepBlocksUntilDone ==
    /\ [](DispatchesInFlight =>
            (pc # "idle" /\ stage = "simulate" /\ gpu_queue = <<>> /\ future = <<>>))
    /\ [][steps_done' # steps_done =>
            (~DispatchesInFlight /\ dispatched = <<0, 1>>)]_vars
    /\ [][lastOp' = "draw_life" => (~DispatchesInFlight /\ ~DispatchesInFlight')]_vars
    /\ [][gfx_log' # gfx_log => (~DispatchesInFlight /\ ~DispatchesInFlight')]_vars
    /\ [][(pc = "idle" /\ pc' # "idle") => ~DispatchesInFlight]_vars

C11_Witness ==
    /\ pc = "run"
    /\ push.step = 1
    /\ frame = 1
    /\ presented = 1
    /\ edits = 1
    /\ sim_steps = 1

\* Positions of the units of work with the given operation in a sequence.
OpsAt(work, op) == {i \in DOMAIN work : work[i].op = op}

\* The units of work in the sequence keep the order acquire, begin_render_pass,
\* draw_indexed, end_render_pass, present.
InFrameOrder(work) ==
    \A i \in DOMAIN work, j \in DOMAIN work :
        (/\ i < j
         /\ <<work[j].op, work[i].op>> \in
                {<<"acquire", "begin_render_pass">>,
                 <<"begin_render_pass", "draw_indexed">>,
                 <<"draw_indexed", "end_render_pass">>,
                 <<"end_render_pass", "present">>}) => FALSE

\* C12: when FillScreenRenderPass::draw has returned, the future holds the work
\* of the input future first and then begin_render_pass with the clear color
\* on the target, one draw_indexed of 6 indices sampling the color image, and
\* end_render_pass last, and none of it has been queued or executed; the
\* queue executes the work in that order, the input future's work first.
C12_CompositeRecordsInOrder ==
    /\ stage = "drawn" =>
          /\ future[1] = Work("acquire", "swapchain_image", <<>>, 0)
          /\ future[2] = Work("begin_render_pass", "swapchain_image", CLEAR_COLOR, 0)
          /\ future[Len(future)] = Work("end_render_pass", "swapchain_image", <<>>, 0)
          /\ Cardinality(OpsAt(future, "begin_render_pass")) = 1
          /\ Cardinality(OpsAt(future, "end_render_pass")) = 1
          /\ Cardinality(OpsAt(future, "acquire")) = 1
          /\ \E i \in 3 .. (Len(future) - 1) :
                /\ OpsAt(future, "draw_indexed") = {i}
                /\ future[i] = Work("draw_indexed", "color_image", <<>>, 6)
          /\ \E i \in 3 .. (Len(future) - 1) :
                future[i] = Work("bind_descriptor_sets", "color_image", <<>>, 0)
          /\ gpu_queue = <<>>
          /\ gfx_log = <<>>
    /\ InFrameOrder(gfx_log)
    /\ InFrameOrder(gfx_log \o gpu_queue)
    /\ (gfx_log # <<>> => gfx_log[1].op = "acquire")

C12_Witness ==
    /\ stage = "presenting"
    /\ gpu_queue = <<>>
    /\ OpsAt(gfx_log, "draw_indexed") # {}
    /\ OpsAt(gfx_log, "present") = {Len(gfx_log)}
    /\ sim_steps = 1

\* What happened so far in this frame.
FrameOps == {frame_ops[i] : i \in DOMAIN frame_ops}

\* C13: the step of render in which the acquire fails logs one error and
\* leaves both grid buffers, the color image, the step counter and the count
\* of presented frames unchanged, with no graphics work chained or queued, and
\* render is over (the Last stage follows); in a frame whose acquire failed no
\* composite draw is recorded and no graphics work is executed.
C13_AcquireFailureSkipsFrame ==
    /\ [][logged' # logged =>
            /\ logged' = logged + 1
            /\ UNCHANGED <<life_in, life_out, image, sim_steps, presented>>
            /\ future' = <<>> /\ gpu_queue' = <<>> /\ gfx_log' = gfx_log
            /\ stage = "post_update" /\ stage' = "last"]_vars
    /\ []("acquire_failed" \in FrameOps =>
            /\ "composite" \notin FrameOps
            /\ future = <<>> /\ gpu_queue = <<>> /\ gfx_log = <<>>
            /\ stage = "last")
    /\ [][presented' # presented =>
            ("acquire_failed" \notin FrameOps /\ "composite" \in FrameOps)]_vars

\* A frame is presented after the frame before it was skipped.
C13_Witness ==
    /\ logged = 1
    /\ presented = 1
    /\ frame = 1
    /\ stage = "last"
    /\ "composite" \in FrameOps
    /\ sim_steps = 2

\* The texture that shows a grid in the colors passed to compute.
Coloring(grid) == [i \in Cells |-> ColorOf(grid[i])]

\* C14: an invocation of the colorization dispatch changes neither grid
\* buffer and no texel but its own; when the dispatch has run to its end the
\* texture is the coloring of life_out, whatever it held before; run on a
\* texture that already is the coloring of the same life_out (the result of
\* an earlier colorization of the same contents), it changes no texel.
C14_ColorizationIdempotent ==
    /\ [][(pc = "run" /\ push.step = 1) =>
            /\ UNCHANGED <<life_in, life_out>>
            /\ (image = Coloring(life_out) => image' = image)]_vars
    /\ []((pc = "exec" /\ cmds = <<>> /\ dispatched = <<0, 1>>) =>
            image = Coloring(life_out))
    /\ []((pc = "run" /\ push.step = 1) =>
            \A p \in GlobalInvocations \ pending :
                image[get_index(p[1], p[2])] = ColorOf(life_out[get_index(p[1], p[2])]))

\* The second colorization of an engine runs on the texture that the first
\* one produced from the same life_out.
C14_Witness ==
    /\ pc = "run"
    /\ push.step = 1
    /\ sim_steps = 1
    /\ pending # GlobalInvocations
    /\ image = Coloring(life_out)
    /\ \E i \in Cells : life_out[i] = 1

\* C15: for an invocation of the simulation dispatch, a neighbour whose
\* coordinates lie outside the grid (x = -1, x = width, y = -1 or y = height)
\* is not resolved to a word of the grid buffer, and no cell's state is
\* counted alive for such a neighbour.
C15_NoWraparound ==
    /\ (pc = "run" /\ push.step = 0) =>
          \A p \in GlobalInvocations \ pending : \A o \in NeighbourOffsets :
              ~InsideImage(p[1] + o[1], p[2] + o[2]) =>
                  ~InBuffer(NeighbourIndex(p[1], p[2], o))
    /\ (inv # NoInv) => inv.wrapped = 0

\* C16: the sides of the grid of the engine created at startup, and of the
\* engine created for a resize event, are multiples of 8; after a resize each
\* is half the window side (in whole pixels) rounded down to a multiple of 8;
\* the invocations of a dispatch of (width / 8, height / 8) work groups are
\* exactly the cells of the grid, and no two of them address the same word.
C16_GridSidesMultipleOfEight ==
    LET w == size[1]
        h == size[2]
        invocations == DispatchInvocations(DispatchGroups(size))
        words == {get_index_in(size, p[1], p[2]) : p \in invocations}
        half(side) == (side \div 2) \div 2
    IN  /\ w % 8 = 0 /\ h % 8 = 0
        /\ resize_event # NoEvent =>
              /\ w <= half(resize_event[1]) /\ half(resize_event[1]) < w + 8
              /\ h <= half(resize_event[2]) /\ half(resize_event[2]) < h + 8
        /\ invocations = (0 .. (w - 1)) \X (0 .. (h - 1))
        /\ Cardinality(words) = Cardinality(invocations)
        /\ words = 0 .. (w * h - 1)

C16_Witness ==
    /\ resize_event = <<66, 35>>
    /\ size = <<16, 8>>
    /\ lastOp = "new"

\* C17: in every frame the draw_life calls come before the compute calls and
\* both before the composite draw, of which there is at most one; every
\* draw_life call, compute call and composite draw is one of the frame.
C17_EditsStepComposite ==
    /\ [](\A i \in DOMAIN frame_ops, j \in DOMAIN frame_ops :
            i < j => <<frame_ops[i], frame_ops[j]>> \notin
                {<<"step", "edit">>, <<"composite", "edit">>,
                 <<"composite", "step">>, <<"composite", "composite">>,
                 <<"acquire_failed", "edit">>, <<"acquire_failed", "step">>})
    /\ [][edits' = edits + 1 => frame_ops' = Append(frame_ops, "edit")]_vars
    /\ [][(pc = "idle" /\ pc' # "idle") => frame_ops' = Append(frame_ops, "step")]_vars
    /\ [][(stage' = "drawn" /\ stage # "drawn") =>
            frame_ops' = Append(frame_ops, "composite")]_vars
    /\ [][(frame' = frame) =>
            (frame_ops' = frame_ops \/ \E op \in {"edit", "step", "composite", "acquire_failed"} :
                                            frame_ops' = Append(frame_ops, op))]_vars

C17_Witness ==
    /\ frame = 1
    /\ frame_ops = <<"edit", "step", "step", "composite">>

\* C18: while the simulation dispatch that follows a draw_life call runs, the
\* buffer draw_life edited is the one the dispatch reads each cell's own state
\* from and the one it reads the neighbours from, it is not the one the
\* dispatch writes, and every cell the call set alive holds 1 in the buffer
\* read for own states and in the buffer read for neighbours.
C18_EditSeenByNextStep ==
    (pc = "run" /\ push.step = 0 /\ edited.cells # {}) =>
        /\ ReadSource(push.swap_read_order) = edited.buf
        /\ NeighbourSource(push.swap_read_order) = edited.buf
        /\ WriteTarget(push.swap_read_order) # edited.buf
        /\ \A c \in edited.cells :
              /\ BufferOf(ReadSource(push.swap_read_order))[c] = 1
              /\ BufferOf(NeighbourSource(push.swap_read_order))[c] = 1

\* C19: a draw_life call changes cells of the buffer it locks only from dead
\* to alive, and leaves the other grid buffer, the color image and the step
\* counter unchanged.
C19_DrawOnlyTurnsAlive ==
    [][edits' = edits + 1 =>
        /\ drawn'.buf = "out" =>
              /\ life_in' = life_in
              /\ \A i \in Cells : life_out'[i] # life_out[i] =>
                                      (life_out[i] = 0 /\ life_out'[i] = 1)
        /\ drawn'.buf = "in" =>
              /\ life_out' = life_out
              /\ \A i \in Cells : life_in'[i] # life_in[i] =>
                                      (life_in[i] = 0 /\ life_in'[i] = 1)
        /\ drawn'.buf \in {"in", "out"}
        /\ UNCHANGED <<image, sim_steps>>]_vars

\* A call that chose two cells, one alive before it and one dead.
C19_Witness ==
    /\ lastOp = "draw_life"
    /\ Cardinality(drawn.writes) = 2
    /\ Cardinality(edited.cells) = 1
    /\ sim_steps = 1

\* C20: every word of both grid buffers is 0 or 1.
C20_CellsAreBits ==
    \A i \in Cells : life_in[i] \in {0, 1} /\ life_out[i] \in {0, 1}

C20_Witness ==
    /\ pc = "idle"
    /\ sim_steps = 2
    /\ edits = 1
    /\ \E i \in Cells : life_in[i] = 1 /\ life_out[i] = 0
    /\ \E i \in Cells : life_in[i] = 0 /\ life_out[i] = 1

====
